---- MODULE Spec2Model ----
(***************************************************************************)
(* Chat session state machine of the project dashboard.                    *)
(*                                                                         *)
(*   Spec         the Chat Session Manager                                 *)
(*                (src/src/components/PilotChat.tsx): lines, commands, the *)
(*                proxy call, the store, the clock                         *)
(*   SpecStaging  the same manager with reply targets and attachments      *)
(*                staged, for plain lines and a command                    *)
(*   SpecProxy    the context-aware completion proxy                       *)
(*                (src/supabase/functions/gemini/index.ts, second handler) *)
(*                                                                         *)
(* The capability flag is read from window.__FEATURE_FLAGS__, which no     *)
(* code of the repository writes: it is fixed for a behaviour and chosen   *)
(* by Init.  While the input is disabled (flag off, call in flight, latch  *)
(* set) only a preset can fill the input line.                             *)
(*                                                                         *)
(* Text on the proxy side is a sequence of runs [ch, n] (n copies of the   *)
(* character ch), so that lengths of thousands of characters and the       *)
(* slice() the handler applies are computed, not assumed.  Text on the     *)
(* client side is the sequence of whitespace-separated tokens of a line,   *)
(* which is what the command parser and the redaction pattern work on.     *)
(***************************************************************************)
EXTENDS Integers, Sequences, FiniteSets, TLC

VARIABLES
    \* ---- completion proxy (one invocation at a time) ----
    store,        \* rows of table `messages`, in created_at order
    pPc,          \* "idle" | "calling" | "inserting" | "done"
    pReq,         \* the request being served
    pContents,    \* `contents` sent to the model
    pLoaded,      \* `recentMessages` as returned by the store read
    pText,        \* `text` extracted from the model's answer
    pResp         \* the last HTTP response returned

proxyVars == <<store, pPc, pReq, pContents, pLoaded, pText, pResp>>

VARIABLES
    \* ---- chat session manager (one mounted PilotChat) ----
    messages,        \* the transcript
    inputValue,      \* the input line, as its tokens
    gemini,          \* the capability flag (geminiAtivo)
    geminiHealth,    \* result of the health probe
    isLoading,
    isProcessing,    \* isProcessingRef.current, the in-flight latch
    replyTo,         \* id of the pending reply target, or NoId
    pendingFiles,    \* number of staged attachments
    supabaseRef,     \* TRUE when a store session is held
    supabaseStatus,
    cPc,             \* where handleSendMessage is: "idle", "awaitFetch",
                     \* "gotFetch", "awaitStore", "gotStore"
    sub,             \* the submission in flight: its user message and command
    fetchBody,       \* body of the completion request that is out, or NoBody
    arrived,         \* the settled result of the awaited call
    probing,         \* TRUE while the health probe of this project is out
    nextId,          \* ids genId() has not given out yet
    selectedIdx      \* the selection cursor: an index from 0, or NoIdx (null)

clientVars == <<messages, inputValue, gemini, geminiHealth, isLoading, isProcessing,
                replyTo, pendingFiles, supabaseRef, supabaseStatus, cPc, sub,
                fetchBody, arrived, probing, nextId, selectedIdx>>

vars == <<store, pPc, pReq, pContents, pLoaded, pText, pResp,
          messages, inputValue, gemini, geminiHealth, isLoading, isProcessing,
          replyTo, pendingFiles, supabaseRef, supabaseStatus, cPc, sub,
          fetchBody, arrived, probing, nextId, selectedIdx>>

----------------------------------------------------------------------------
(* Bounds of the model *)

\* rows the environment may write beyond the proxy's window of MAX_MESSAGES
MaxExtraRows == 1
\* rows of the store that are not the short default turn
MaxSpecial == 1
\* messages one mounted chat may create
MaxIds == 5
\* milliseconds that pass in one step of the clock
TickMs == 5000
\* attachments staged at once
MaxFiles == 1

(* Program constants *)
MAX_MESSAGES == 12
MAX_CONTEXT_CHARS == 5000
FALLBACK_PROMPT_CHARS == 1000
DUPLICATE_WINDOW_MS == 10000
REDACT_MIN_CHARS == 16

MaxStored == MAX_MESSAGES + MaxExtraRows

----------------------------------------------------------------------------
(* Run-length text *)

RECURSIVE TextLen(_)
TextLen(t) == IF t = <<>> THEN 0 ELSE Head(t).n + TextLen(Tail(t))

\* String.prototype.slice(0, k)
RECURSIVE SliceFront(_, _)
SliceFront(t, k) ==
    IF t = <<>> \/ k <= 0 THEN <<>>
    ELSE IF Head(t).n <= k THEN <<Head(t)>> \o SliceFront(Tail(t), k - Head(t).n)
    ELSE <<[ch |-> Head(t).ch, n |-> k]>>

Txt(c, k) == <<[ch |-> c, n |-> k]>>

\* contents of stored turns: a short turn, a long one, one over the budget
TurnText == Txt("t", 250)
MidText  == Txt("m", 2500)
OverText == Txt("x", 5001)
\* what the model generates
ReplyText == Txt("t", 250)

ShortPrompt == Txt("p", 40)
LongPrompt  == <<[ch |-> "p", n |-> 600], [ch |-> "q", n |-> 600]>>

Reverse(s) == [i \in 1..Len(s) |-> s[Len(s) + 1 - i]]

Min(a, b) == IF a <= b THEN a ELSE b

----------------------------------------------------------------------------
(* JavaScript values of the request body *)

JUndef  == [t |-> "undefined"]
JNum    == [t |-> "number"]
JNull   == [t |-> "null"]
JStr(v) == [t |-> "string", v |-> v]

\* `prompt` of the body; a string's value is a run-length text
PromptVals == {JUndef, JNum, JStr(<<>>), JStr(ShortPrompt), JStr(LongPrompt)}
\* `chatId` of the body; a string's value is an identifier
ChatVals == {JUndef, JNum, JStr(""), JStr("c1")}

Body(p, c) == [parse |-> TRUE, prompt |-> p, chatId |-> c]

\* a body req.json() cannot parse
BadBody == [parse |-> FALSE, prompt |-> JUndef, chatId |-> JUndef]

GoodChat == JStr("c1")

\* the bodies of generation requests: each field invalid in each way beside a
\* valid other field, both missing, and the valid ones
Bodies == {BadBody, Body(JUndef, JUndef)}
            \cup {Body(p, GoodChat) : p \in PromptVals}
            \cup {Body(JStr(ShortPrompt), c) : c \in ChatVals}

Request(m, k, b) == [method |-> m, key |-> k, body |-> b]

Requests == {Request("OPTIONS", TRUE, BadBody), Request("GET", TRUE, BadBody),
             Request("GET", FALSE, BadBody), Request("PUT", TRUE, BadBody),
             Request("POST", FALSE, Body(JStr(ShortPrompt), GoodChat)),
             Request("POST", FALSE, Body(JUndef, GoodChat))}
            \cup {Request("POST", TRUE, b) : b \in Bodies}

\* !prompt || typeof prompt !== 'string'
PromptInvalid(p) == p.t # "string" \/ p.v = <<>>
\* !chatId || typeof chatId !== 'string'
ChatIdInvalid(c) == c.t # "string" \/ c.v = ""

----------------------------------------------------------------------------
(* Context assembly *)

\* a row of table `messages`
Row(chat, sender, content) == [chat_id |-> chat, sender |-> sender, content |-> content]

AssistantRow(chat, text) == Row(chat, "assistant", text)

EnvRows == {Row("c1", "assistant", TurnText), Row("c1", "user", MidText),
            Row("c1", "user", OverText)}

IsSpecial(r) == r.content # TurnText

NumSpecial(rows) == Cardinality({i \in 1..Len(rows) : IsSpecial(rows[i])})

\* .eq('chat_id', chatId).order('created_at', {ascending: false}).limit(n)
SelectRecent(rows, chat, n) ==
    LET mine == SelectSeq(rows, LAMBDA r : r.chat_id = chat)
        desc == Reverse(mine)
    IN  SubSeq(desc, 1, Min(n, Len(desc)))

RoleOf(sender) == IF sender = "user" THEN "user" ELSE "model"

Turn(role, text) == [role |-> role, text |-> text]

\* the for-loop of the handler over contextMessages, from index i with
\* running total totalChars and the contents pushed so far
RECURSIVE ContextLoop(_, _, _, _)
ContextLoop(ctx, i, totalChars, contents) ==
    IF i > Len(ctx) THEN contents
    ELSE IF totalChars + TextLen(ctx[i].content) > MAX_CONTEXT_CHARS THEN contents
    ELSE ContextLoop(ctx, i + 1, totalChars + TextLen(ctx[i].content),
                     Append(contents, Turn(RoleOf(ctx[i].sender), ctx[i].content)))

\* the budget test made after the push instead of before it
RECURSIVE ContextLoopLate(_, _, _, _)
ContextLoopLate(ctx, i, totalChars, contents) ==
    IF i > Len(ctx) THEN contents
    ELSE IF totalChars > MAX_CONTEXT_CHARS THEN contents
    ELSE ContextLoopLate(ctx, i + 1, totalChars + TextLen(ctx[i].content),
                     Append(contents, Turn(RoleOf(ctx[i].sender), ctx[i].content)))

\* the loop passing over a turn that does not fit (continue for break)
RECURSIVE ContextLoopSkip(_, _, _, _)
ContextLoopSkip(ctx, i, totalChars, contents) ==
    IF i > Len(ctx) THEN contents
    ELSE IF totalChars + TextLen(ctx[i].content) > MAX_CONTEXT_CHARS
    THEN ContextLoopSkip(ctx, i + 1, totalChars, contents)
    ELSE ContextLoopSkip(ctx, i + 1, totalChars + TextLen(ctx[i].content),
                     Append(contents, Turn(RoleOf(ctx[i].sender), ctx[i].content)))

\* the context block packing every turn that fits
BuildContextBestFit(recent) ==
    IF Len(recent) > 0 THEN ContextLoopSkip(Reverse(recent), 1, 0, <<>>) ELSE <<>>

\* the context block over the loop that tests late
BuildContextMut(recent) ==
    IF Len(recent) > 0 THEN ContextLoopLate(Reverse(recent), 1, 0, <<>>) ELSE <<>>

\* `contents` after the context block: recentMessages reversed to
\* chronological order, then included oldest first within the budget
BuildContext(recent) ==
    IF Len(recent) > 0 THEN ContextLoop(Reverse(recent), 1, 0, <<>>) ELSE <<>>

\* the cut of the handler without context: prompt.slice(0, 5000)
TruncatedPromptMut(prompt) ==
    IF TextLen(prompt) > MAX_CONTEXT_CHARS THEN SliceFront(prompt, MAX_CONTEXT_CHARS) ELSE prompt

\* prompt.length > 1000 ? prompt.slice(0, 1000) : prompt
TruncatedPrompt(prompt) ==
    IF TextLen(prompt) > FALLBACK_PROMPT_CHARS
    THEN SliceFront(prompt, FALLBACK_PROMPT_CHARS) ELSE prompt

\* the payload with the prompt used only when the store returned no turn
PayloadNoTurnsOnly(recent, prompt) ==
    IF Len(recent) = 0 THEN <<Turn("user", TruncatedPrompt(prompt))>>
    ELSE BuildContext(recent)

\* `contents` of the payload: the context, or the prompt alone when the
\* context is empty
Payload(recent, prompt) ==
    LET contents == BuildContext(recent)
    IN  IF Len(contents) = 0 THEN <<Turn("user", TruncatedPrompt(prompt))>>
        ELSE contents

TurnsLen(contents) ==
    LET RECURSIVE Sum(_)
        Sum(i) == IF i > Len(contents) THEN 0 ELSE TextLen(contents[i].text) + Sum(i + 1)
    IN  Sum(1)

----------------------------------------------------------------------------
(* The proxy's handler *)

NoReq == [method |-> "none", key |-> FALSE,
          body |-> [parse |-> FALSE, prompt |-> JUndef, chatId |-> JUndef]]

NoResp == [status |-> 0, kind |-> "none", error |-> "", text |-> JNull, cors |-> FALSE]

\* an error response built without the cross-origin headers
ErrorRespNoCors(status, msg) ==
    [status |-> status, kind |-> "error", error |-> msg, text |-> JNull, cors |-> FALSE]

\* new Response(JSON.stringify({error}), {status, headers: {...corsHeaders}})
ErrorResp(status, msg) ==
    [status |-> status, kind |-> "error", error |-> msg, text |-> JNull, cors |-> TRUE]

\* new Response(JSON.stringify({ok: true, text, raw}), {status: 200, ...})
ResultResp(text) ==
    [status |-> 200, kind |-> "result", error |-> "", text |-> text, cors |-> TRUE]

HealthResp(key) ==
    IF key THEN [status |-> 200, kind |-> "health", error |-> "", text |-> JNull, cors |-> TRUE]
    ELSE [status |-> 503, kind |-> "health", error |-> "GEMINI_API_KEY missing",
          text |-> JNull, cors |-> TRUE]

PreflightResp ==
    [status |-> 200, kind |-> "preflight", error |-> "", text |-> JNull, cors |-> TRUE]

\* the checks with the body read and tested before the credential
ValidateFieldsFirst(method, key, body) ==
    IF method = "OPTIONS" THEN PreflightResp
    ELSE IF method = "GET" THEN HealthResp(key)
    ELSE IF method # "POST" THEN ErrorResp(405, "Method not allowed")
    ELSE IF ~body.parse THEN ErrorResp(500, "Unexpected error")
    ELSE IF PromptInvalid(body.prompt) THEN ErrorResp(400, "Prompt is required")
    ELSE IF ChatIdInvalid(body.chatId) THEN ErrorResp(400, "Chat ID is required")
    ELSE IF ~key THEN ErrorResp(400, "GEMINI_API_KEY missing")
    ELSE NoResp

\* the answer of the checks made before the store is read, or "pass"
Validate(method, key, body) ==
    IF method = "OPTIONS" THEN PreflightResp
    ELSE IF method = "GET" THEN HealthResp(key)
    ELSE IF method # "POST" THEN ErrorResp(405, "Method not allowed")
    ELSE IF ~key THEN ErrorResp(400, "GEMINI_API_KEY missing")
    ELSE IF ~body.parse THEN ErrorResp(500, "Unexpected error")
    ELSE IF PromptInvalid(body.prompt) THEN ErrorResp(400, "Prompt is required")
    ELSE IF ChatIdInvalid(body.chatId) THEN ErrorResp(400, "Chat ID is required")
    ELSE NoResp

Passes(method, key, body) == Validate(method, key, body) = NoResp

\* return new Response(...)
Respond(resp) ==
    /\ pResp' = resp
    /\ pPc' = "done"

\* the handler treating an error returned by the store read as fatal
ProxyReceiveReadFatal(method, key, body, read) ==
    /\ pPc = "idle"
    /\ UNCHANGED clientVars
    /\ pReq' = [method |-> method, key |-> key, body |-> body]
    /\ pText' = JNull
    /\ UNCHANGED store
    /\ IF ~Passes(method, key, body)
       THEN /\ Respond(Validate(method, key, body))
            /\ pLoaded' = <<>>
            /\ pContents' = <<>>
       ELSE IF read # "ok"
       THEN /\ Respond(ErrorResp(500, "Unexpected error"))
            /\ pLoaded' = <<>>
            /\ pContents' = <<>>
       ELSE LET recent == SelectRecent(store, body.chatId.v, MAX_MESSAGES)
            IN  /\ pLoaded' = recent
                /\ pContents' = Payload(recent, body.prompt.v)
                /\ pPc' = "calling"
                /\ pResp' = NoResp

\* the handler from its entry to the call of the model: validation, the store
\* read (read: "ok", "error" for a returned error, "throw"), the assembly
ProxyReceive(method, key, body, read) ==
    /\ pPc = "idle"
    /\ UNCHANGED clientVars
    /\ pReq' = [method |-> method, key |-> key, body |-> body]
    /\ pText' = JNull
    /\ UNCHANGED store
    /\ IF ~Passes(method, key, body)
       THEN /\ Respond(Validate(method, key, body))
            /\ pLoaded' = <<>>
            /\ pContents' = <<>>
       ELSE IF read = "throw"
       THEN /\ Respond(ErrorResp(500, "Unexpected error"))
            /\ pLoaded' = <<>>
            /\ pContents' = <<>>
       ELSE LET recent == IF read = "ok"
                          THEN SelectRecent(store, body.chatId.v, MAX_MESSAGES)
                          ELSE <<>>
            IN  /\ pLoaded' = recent
                /\ pContents' = Payload(recent, body.prompt.v)
                /\ pPc' = "calling"
                /\ pResp' = NoResp

\* text extracted from an OK answer of the given shape
ExtractText(shape) ==
    IF shape \in {"candidates", "output"} THEN JStr(ReplyText) ELSE JNull

\* the shapes of the body the model's endpoint answers with; "notjson" is a
\* body response.json() cannot parse
Shapes == {"candidates", "output", "neither", "notjson"}

\* the model answers, OK or with `status`, a body of the given shape (or the
\* call throws); the body is parsed before the status is looked at
ModelRespond(outcome, status, shape) ==
    /\ pPc = "calling"
    /\ UNCHANGED clientVars
    /\ UNCHANGED <<store, pReq, pContents, pLoaded>>
    /\ CASE outcome = "throw" \/ shape = "notjson" ->
              /\ Respond(ErrorResp(500, "Unexpected error"))
              /\ pText' = JNull
         [] outcome = "nonok" /\ shape # "notjson" ->
              /\ Respond(ErrorResp(status, "Gemini API error"))
              /\ pText' = JNull
         [] outcome = "ok" /\ shape # "notjson" ->
              /\ pText' = ExtractText(shape)
              /\ IF ExtractText(shape) # JNull
                 THEN pPc' = "inserting" /\ pResp' = NoResp
                 ELSE Respond(ResultResp(JNull))

\* supabase.from('messages').insert(...) settles; a returned error is not read
InsertSettles(outcome) ==
    /\ pPc = "inserting"
    /\ UNCHANGED clientVars
    /\ UNCHANGED <<pReq, pContents, pLoaded, pText>>
    /\ CASE outcome = "ok" ->
              /\ Len(store) <= MaxStored
              /\ store' = Append(store, AssistantRow(pReq.body.chatId.v, pText.v))
              /\ Respond(ResultResp(pText))
         [] outcome = "error" ->
              /\ UNCHANGED store
              /\ Respond(ResultResp(pText))
         [] outcome = "throw" ->
              /\ UNCHANGED store
              /\ Respond(ErrorResp(500, "Unexpected error"))

\* the invocation ends: its locals are gone, the next request starts afresh
ProxyReturn ==
    /\ pPc = "done"
    /\ UNCHANGED clientVars
    /\ pPc' = "idle"
    /\ pReq' = NoReq
    /\ pContents' = <<>>
    /\ pLoaded' = <<>>
    /\ pText' = JNull
    /\ pResp' = NoResp
    /\ UNCHANGED store

\* another writer adds a turn to the conversation
StoreWrite(row) ==
    /\ pPc = "idle"
    /\ UNCHANGED clientVars
    /\ Len(store) < MaxStored
    /\ IsSpecial(row) => NumSpecial(store) < MaxSpecial
    /\ store' = Append(store, row)
    /\ UNCHANGED <<pPc, pReq, pContents, pLoaded, pText, pResp>>

InitProxy ==
    /\ store = <<>>
    /\ pPc = "idle"
    /\ pReq = NoReq
    /\ pContents = <<>>
    /\ pLoaded = <<>>
    /\ pText = JNull
    /\ pResp = NoResp

NextProxy ==
    \/ \E req \in Requests, r \in {"ok", "error", "throw"} :
          ProxyReceive(req.method, req.key, req.body, r)
    \/ \E o \in {"throw", "nonok", "ok"}, st \in {429, 503},
          sh \in Shapes : ModelRespond(o, st, sh)
    \/ \E o \in {"ok", "error", "throw"} : InsertSettles(o)
    \/ ProxyReturn
    \/ \E row \in EnvRows : StoreWrite(row)



----------------------------------------------------------------------------
(* The chat session manager: lines, messages, notices *)

NoId == -1
HelloId == 0

\* tokens made only of [A-Za-z0-9-_]
PlainToks == {"hi", "t1", "abc", "connect", "url",
              "key-0123456789abcdef", "key-fedcba9876543210"}

Redacted == "<REDACTED>"

\* the line recorded as typed
SanitizeNothing(raw) == raw

\* raw.replace(/\s+([A-Za-z0-9-_]{16,})$/, ' <REDACTED>') on a trimmed line
Sanitize(raw) ==
    IF /\ Len(raw) >= 2
       /\ raw[Len(raw)] \in PlainToks
       /\ Len(raw[Len(raw)]) >= REDACT_MIN_CHARS
    THEN SubSeq(raw, 1, Len(raw) - 1) \o <<Redacted>>
    ELSE raw

\* tokens that start with '/'
SlashToks == {"/supabase", "/listar", "/inserir", "/atualizar", "/deletar",
              "/migrar-mock", "/foo"}

\* inputValue.trim().startsWith('/')
IsCommand(line) == Len(line) > 0 /\ Head(line) \in SlashToks

\* JSON.parse accepts the text
JsonValid(text) == text = <<"{j}">>

Hi         == <<"hi">>
CmdListar  == <<"/listar", "t1">>
CmdInserir == <<"/inserir", "t1", "{j}">>
CmdConnect == <<"/supabase", "connect", "url", "key-0123456789abcdef">>
CmdUnknown == <<"/foo">>
\* the connect command with another key
CmdConnectOther == <<"/supabase", "connect", "url", "key-fedcba9876543210">>

\* the lines the user types; the preset buttons offer plain lines
Presets == {Hi}
Inputs == {<<>>, Hi, CmdListar, CmdInserir, CmdConnect, CmdUnknown}
PlainInputs == {<<>>, Hi}
\* the lines sent while a reply target or attachments are staged
StagingInputs == PlainInputs \cup {CmdUnknown}

\* texts of the notices
DisabledNotice     == <<"#gemini-disabled">>
DuplicateNotice    == <<"#duplicate-suppressed">>
NotConnectedNotice == <<"#supabase-not-connected">>
ConnectedNotice    == <<"#supabase-connected">>
MigrarNotice       == <<"#migrar-disabled">>
UnknownNotice      == <<"#unknown-command">>
UsageNotice(cmd)   == <<"#usage", cmd>>
GeminiError(msg)   == <<"#gemini-error", msg>>
ConnectFailed(msg) == <<"#connect-failed", msg>>
CommandDone(cmd)   == <<"#done", cmd>>
CommandError(cmd, msg) == <<"#error", cmd, msg>>
GeminiReply        == <<"#gemini-reply">>
FallbackReply(att) == IF att = 0 THEN <<"#fallback-reply">>
                      ELSE <<"#fallback-reply", "attachments", ToString(att)>>

\* messages of errors raised by the proxy or the store
ErrorMsgs == {"boom"}

\* Timestamps are kept relative to the current instant: `now` is 0, a message
\* made t ms ago has ts = -t, and the clock's step shifts every timestamp.
\* The manager reads a timestamp only in the window test of
\* isDuplicateUserMessage, so an age beyond the window is kept as the window
\* itself.  The timestamp of a pilot message is never read and not tracked.
now == 0
NoTs == 1
Oldest == 0 - DUPLICATE_WINDOW_MS

Max(a, b) == IF a >= b THEN a ELSE b

\* A message of the transcript.  `typed` is a history field the component
\* does not keep: for a user message, the line as it was typed, which differs
\* from `content` when the line was redacted.  No handler reads it.
Msg(id, content, sender, ts, status, reply, att) ==
    [id |-> id, content |-> content, sender |-> sender,
     ts |-> IF sender = "user" THEN ts ELSE NoTs,
     status |-> status, replyToId |-> reply, att |-> att, typed |-> content]

Hello(ts) == Msg(HelloId, <<"#hello">>, "pilot", ts, "sent", NoId, 0)

HasPilot(msgs, text) ==
    \E i \in 1..Len(msgs) : msgs[i].sender = "pilot" /\ msgs[i].content = text

\* addSystemMessage with the notice filed under the user's name
AddSystemMessageAsUser(msgs, text, id, ts) ==
    IF HasPilot(msgs, text) THEN msgs
    ELSE Append(msgs, Msg(id, text, "user", ts, "sent", NoId, 0))

\* addSystemMessage: setMessages(prev => prev.some(...) ? prev : [...prev, sys])
AddSystemMessage(msgs, text, id, ts) ==
    IF HasPilot(msgs, text) THEN msgs
    ELSE Append(msgs, Msg(id, text, "pilot", ts, "sent", NoId, 0))

\* setMessages(prev => prev.map(m => m.id === id ? {...m, status} : m))
SetStatus(msgs, id, status) ==
    [i \in 1..Len(msgs) |->
        IF msgs[i].id = id THEN [msgs[i] EXCEPT !.status = status] ELSE msgs[i]]

\* messages.some(m => ... && new Date(m.timestamp).getTime() > tenSecondsAgo)
IsDuplicateUserMessage(msgs, content, reply, att, t) ==
    \E i \in 1..Len(msgs) :
        /\ msgs[i].sender = "user"
        /\ msgs[i].content = content
        /\ msgs[i].replyToId = reply
        /\ msgs[i].att = att
        /\ msgs[i].ts > t - DUPLICATE_WINDOW_MS

\* ids used by the messages an update added
IdsAfter(msgs2) == IF Len(msgs2) = 0 THEN nextId
                   ELSE IF msgs2[Len(msgs2)].id >= nextId THEN msgs2[Len(msgs2)].id + 1
                   ELSE nextId

NoSub == [id |-> NoId, raw |-> <<>>, kind |-> "none"]
NoArrival == [ok |-> FALSE, threw |-> FALSE, msg |-> ""]
NoBody == [parse |-> FALSE, prompt |-> JUndef, chatId |-> JUndef]

----------------------------------------------------------------------------
(* handleCommand *)

\* parts.slice(k).join(' ')
Rest(parts, k) == IF Len(parts) < k THEN <<>> ELSE SubSeq(parts, k, Len(parts))

\* the arguments a data command needs are all there
ArgsComplete(parts) ==
    CASE parts[1] = "/listar"    -> Len(parts) >= 2
      [] parts[1] = "/inserir"   -> Len(parts) >= 3
      [] parts[1] = "/atualizar" -> Len(parts) >= 4
      [] parts[1] = "/deletar"   -> Len(parts) >= 3
      [] OTHER -> FALSE

\* the JSON argument of a data command
JsonArg(parts) ==
    CASE parts[1] = "/inserir"   -> Rest(parts, 3)
      [] parts[1] = "/atualizar" -> Rest(parts, 4)
      [] OTHER -> <<"{j}">>

DataCmds == {"/listar", "/inserir", "/atualizar", "/deletar"}

IsConnectCmd(parts) == parts[1] = "/supabase" /\ Len(parts) >= 2 /\ parts[2] = "connect"

\* handleCommand with the session test of the data commands left out
CommandSyncNoSessionTest(parts, msgs, connected, id, ts) ==
    IF IsConnectCmd(parts)
    THEN IF Len(parts) < 4
         THEN [messages |-> AddSystemMessage(msgs, UsageNotice("/supabase"), id, ts),
               status |-> "keep", await |-> FALSE]
         ELSE [messages |-> msgs, status |-> "connecting", await |-> TRUE]
    ELSE IF parts[1] = "/migrar-mock"
    THEN [messages |-> AddSystemMessage(msgs, MigrarNotice, id, ts),
          status |-> "keep", await |-> FALSE]
    ELSE IF parts[1] \in DataCmds
    THEN IF ~ArgsComplete(parts)
         THEN [messages |-> AddSystemMessage(msgs, UsageNotice(parts[1]), id, ts),
               status |-> "keep", await |-> FALSE]
         ELSE IF ~JsonValid(JsonArg(parts))
         THEN [messages |-> AddSystemMessage(msgs, CommandError(parts[1], "json"), id, ts),
               status |-> "keep", await |-> FALSE]
         ELSE [messages |-> msgs, status |-> "keep", await |-> TRUE]
    ELSE [messages |-> AddSystemMessage(msgs, UnknownNotice, id, ts),
          status |-> "keep", await |-> FALSE]

\* handleCommand up to its first await (or to its return when it awaits
\* nothing): the transcript, the connection status ("keep": unchanged) and
\* whether a call to the store is now out
CommandSync(parts, msgs, connected, id, ts) ==
    IF IsConnectCmd(parts)
    THEN IF Len(parts) < 4
         THEN [messages |-> AddSystemMessage(msgs, UsageNotice("/supabase"), id, ts),
               status |-> "keep", await |-> FALSE]
         ELSE [messages |-> msgs, status |-> "connecting", await |-> TRUE]
    ELSE IF parts[1] = "/migrar-mock"
    THEN [messages |-> AddSystemMessage(msgs, MigrarNotice, id, ts),
          status |-> "keep", await |-> FALSE]
    ELSE IF parts[1] \in DataCmds
    THEN IF ~ArgsComplete(parts)
         THEN [messages |-> AddSystemMessage(msgs, UsageNotice(parts[1]), id, ts),
               status |-> "keep", await |-> FALSE]
         ELSE IF ~connected
         THEN [messages |-> AddSystemMessage(msgs, NotConnectedNotice, id, ts),
               status |-> "keep", await |-> FALSE]
         ELSE IF ~JsonValid(JsonArg(parts))
         THEN [messages |-> AddSystemMessage(msgs, CommandError(parts[1], "json"), id, ts),
               status |-> "keep", await |-> FALSE]
         ELSE [messages |-> msgs, status |-> "keep", await |-> TRUE]
    ELSE [messages |-> AddSystemMessage(msgs, UnknownNotice, id, ts),
          status |-> "keep", await |-> FALSE]

\* handleCommand after the store answered: the notice of the result
CommandAfter(parts, msgs, res, id, ts) ==
    IF IsConnectCmd(parts)
    THEN IF res.ok
         THEN AddSystemMessage(msgs, ConnectedNotice, id, ts)
         ELSE AddSystemMessage(msgs, ConnectFailed(res.msg), id, ts)
    ELSE IF res.ok
         THEN AddSystemMessage(msgs, CommandDone(parts[1]), id, ts)
         ELSE AddSystemMessage(msgs, CommandError(parts[1], res.msg), id, ts)

NewStatus(st) == IF st = "keep" THEN supabaseStatus ELSE st

----------------------------------------------------------------------------
(* The chat session manager: handlers *)

\* the continuation of an awaited call runs as soon as the call settles
Running == cPc \in {"gotFetch", "gotStore"}

\* no submission is between its first await and its return
Idle == cPc = "idle"

\* the flag that always lets the send through
geminiAtivoAlways == TRUE

\* const geminiAtivo = !!gemini
geminiAtivo == gemini

\* const geminiEnabled = !!gemini && geminiHealth
geminiEnabled == gemini /\ geminiHealth

\* the input and the file picker are disabled
InputDisabled == isLoading \/ ~geminiAtivo \/ isProcessing

\* JSON body of the completion request: JSON.stringify({ prompt: content })
CompletionBody(content) == [parse |-> TRUE, prompt |-> JStr(content), chatId |-> JUndef]

UserMessage(id, content, reply, att) == Msg(id, content, "user", now, "sending", reply, att)

\* the fallback branch appending the canned reply every time
FallbackMessagesAlways(msgs, id, att) ==
    Append(msgs, Msg(id, FallbackReply(att), "pilot", now, "sent", NoId, 0))

\* the fallback branch: the canned reply unless its text is already there
FallbackMessages(msgs, id, att) ==
    IF HasPilot(msgs, FallbackReply(att)) THEN msgs
    ELSE Append(msgs, Msg(id, FallbackReply(att), "pilot", now, "sent", NoId, 0))

\* the user enters `line` (typed, or a preset while the input is disabled)
\* and sends it: setInputValue(line), then handleSendMessage from its call
\* to its first await or its return
Submit(line) ==
    /\ ~Running
    /\ InputDisabled => line \in Presets \cup {<<>>}
    /\ UNCHANGED <<gemini, geminiHealth, supabaseRef, arrived, probing>>
    /\ IF ~geminiAtivo
       THEN /\ messages' = AddSystemMessage(messages, DisabledNotice, nextId, now)
            /\ inputValue' = line
            /\ UNCHANGED <<isLoading, isProcessing, replyTo, pendingFiles,
                           supabaseStatus, cPc, sub, fetchBody>>
       ELSE IF line = <<>> \/ isLoading \/ isProcessing
       THEN /\ inputValue' = line
            /\ UNCHANGED <<messages, isLoading, isProcessing, replyTo,
                           pendingFiles, supabaseStatus, cPc, sub, fetchBody>>
       ELSE IF IsCommand(line)
       THEN IF IsDuplicateUserMessage(messages, Sanitize(line), NoId, 0, now)
            THEN /\ messages' = AddSystemMessage(messages, DuplicateNotice, nextId, now)
                 /\ inputValue' = <<>>
                 /\ isProcessing' = TRUE
                 /\ UNCHANGED <<isLoading, replyTo, pendingFiles, supabaseStatus, cPc, sub, fetchBody>>
            ELSE LET user == [UserMessage(nextId, Sanitize(line), NoId, 0)
                                EXCEPT !.typed = line]
                     res  == CommandSync(line, Append(messages, user), supabaseRef,
                                         nextId + 1, now)
                 IN  /\ inputValue' = <<>>
                     /\ replyTo' = NoId
                     /\ pendingFiles' = 0
                     /\ supabaseStatus' = NewStatus(res.status)
                     /\ IF res.await
                        THEN /\ messages' = res.messages
                             /\ isLoading' = TRUE
                             /\ isProcessing' = TRUE
                             /\ cPc' = "awaitStore"
                             /\ sub' = [id |-> nextId, raw |-> line, kind |-> "cmd"]
                             /\ UNCHANGED fetchBody
                        ELSE /\ messages' = SetStatus(res.messages, nextId, "sent")
                             /\ isLoading' = FALSE
                             /\ isProcessing' = FALSE
                             /\ UNCHANGED <<cPc, sub, fetchBody>>
       ELSE IF IsDuplicateUserMessage(messages, line, replyTo, pendingFiles, now)
            THEN /\ messages' = AddSystemMessage(messages, DuplicateNotice, nextId, now)
                 /\ inputValue' = <<>>
                 /\ isProcessing' = FALSE
                 /\ UNCHANGED <<isLoading, replyTo, pendingFiles, supabaseStatus, cPc, sub, fetchBody>>
            ELSE LET user == UserMessage(nextId, line, replyTo, pendingFiles)
                 IN  /\ inputValue' = <<>>
                     /\ replyTo' = NoId
                     /\ pendingFiles' = 0
                     /\ UNCHANGED supabaseStatus
                     /\ IF geminiEnabled
                        THEN /\ messages' = Append(messages, user)
                             /\ isLoading' = TRUE
                             /\ isProcessing' = TRUE
                             /\ cPc' = "awaitFetch"
                             /\ sub' = [id |-> nextId, raw |-> line, kind |-> "plain"]
                             /\ fetchBody' = CompletionBody(line)
                        ELSE /\ messages' = SetStatus(
                                    FallbackMessages(Append(messages, user), nextId + 1,
                                                     pendingFiles),
                                    nextId, "sent")
                             /\ isLoading' = FALSE
                             /\ isProcessing' = FALSE
                             /\ UNCHANGED <<cPc, sub, fetchBody>>
    /\ nextId' = IdsAfter(messages')
    /\ nextId' <= MaxIds + 1
    /\ UNCHANGED selectedIdx
    /\ UNCHANGED proxyVars

\* the completion request settles: an answer (OK or not) or a thrown error
FetchArrives(ok, threw, msg) ==
    /\ cPc = "awaitFetch"
    /\ ~(ok /\ threw)
    /\ cPc' = "gotFetch"
    /\ arrived' = [ok |-> ok, threw |-> threw, msg |-> IF ok THEN "" ELSE msg]
    /\ UNCHANGED <<messages, inputValue, gemini, geminiHealth, isLoading, isProcessing,
                   replyTo, pendingFiles, supabaseRef, supabaseStatus, sub, fetchBody, probing, nextId>>
    /\ UNCHANGED selectedIdx
    /\ UNCHANGED proxyVars

\* handleSendMessage after `await fetch`: try body, catch, finally
FetchContinue ==
    /\ cPc = "gotFetch"
    /\ messages' =
         IF arrived.threw
         THEN SetStatus(AddSystemMessage(messages, GeminiError(arrived.msg), nextId, now),
                        sub.id, "error")
         ELSE IF ~arrived.ok
         THEN AddSystemMessage(messages, GeminiError(arrived.msg), nextId, now)
         ELSE SetStatus(Append(messages, Msg(nextId, GeminiReply, "pilot", now, "sent", NoId, 0)),
                        sub.id, "sent")
    /\ isLoading' = FALSE
    /\ isProcessing' = FALSE
    /\ cPc' = "idle"
    /\ sub' = NoSub
    /\ fetchBody' = NoBody
    /\ arrived' = NoArrival
    /\ nextId' = IdsAfter(messages')
    /\ UNCHANGED <<inputValue, gemini, geminiHealth, replyTo, pendingFiles, supabaseRef,
                   supabaseStatus, probing>>
    /\ UNCHANGED selectedIdx
    /\ UNCHANGED proxyVars

\* the call to the store settles: data, or an error (returned or thrown)
StoreArrives(ok, msg) ==
    /\ cPc = "awaitStore"
    /\ cPc' = "gotStore"
    /\ arrived' = [ok |-> ok, threw |-> FALSE, msg |-> IF ok THEN "" ELSE msg]
    /\ UNCHANGED <<messages, inputValue, gemini, geminiHealth, isLoading, isProcessing,
                   replyTo, pendingFiles, supabaseRef, supabaseStatus, sub, fetchBody, probing, nextId>>
    /\ UNCHANGED selectedIdx
    /\ UNCHANGED proxyVars

\* handleCommand after its await, then handleSendMessage after
\* `await handleCommand(raw)`
StoreContinue ==
    /\ cPc = "gotStore"
    /\ messages' = SetStatus(CommandAfter(sub.raw, messages, arrived, nextId, now),
                             sub.id, "sent")
    /\ IF IsConnectCmd(sub.raw)
       THEN /\ supabaseRef' = (supabaseRef \/ arrived.ok)
            /\ supabaseStatus' = IF arrived.ok THEN "connected" ELSE "error"
       ELSE UNCHANGED <<supabaseRef, supabaseStatus>>
    /\ isLoading' = FALSE
    /\ isProcessing' = FALSE
    /\ cPc' = "idle"
    /\ sub' = NoSub
    /\ fetchBody' = NoBody
    /\ arrived' = NoArrival
    /\ nextId' = IdsAfter(messages')
    /\ UNCHANGED <<inputValue, gemini, geminiHealth, replyTo, pendingFiles, probing>>
    /\ UNCHANGED selectedIdx
    /\ UNCHANGED proxyVars

\* handleFilePick with one file
PickFile ==
    /\ Idle
    /\ ~InputDisabled
    /\ pendingFiles < MaxFiles
    /\ pendingFiles' = pendingFiles + 1
    /\ UNCHANGED <<messages, inputValue, gemini, geminiHealth, isLoading, isProcessing,
                   replyTo, supabaseRef, supabaseStatus, cPc, sub, fetchBody, arrived, probing, nextId>>
    /\ UNCHANGED selectedIdx
    /\ UNCHANGED proxyVars

\* handleReply on the first message of the transcript
Reply ==
    /\ Idle
    /\ replyTo # messages[1].id
    /\ replyTo' = messages[1].id
    /\ UNCHANGED <<messages, inputValue, gemini, geminiHealth, isLoading, isProcessing,
                   pendingFiles, supabaseRef, supabaseStatus, cPc, sub, fetchBody, arrived, probing, nextId>>
    /\ UNCHANGED selectedIdx
    /\ UNCHANGED proxyVars

CancelReply ==
    /\ Idle
    /\ replyTo # NoId
    /\ replyTo' = NoId
    /\ UNCHANGED <<messages, inputValue, gemini, geminiHealth, isLoading, isProcessing,
                   pendingFiles, supabaseRef, supabaseStatus, cPc, sub, fetchBody, arrived, probing, nextId>>
    /\ UNCHANGED selectedIdx
    /\ UNCHANGED proxyVars

\* the health probe of the current project answers
ProbeSettles(healthy) ==
    /\ Idle
    /\ probing
    /\ probing' = FALSE
    /\ geminiHealth' = healthy
    /\ UNCHANGED <<messages, inputValue, gemini, isLoading, isProcessing, replyTo,
                   pendingFiles, supabaseRef, supabaseStatus, cPc, sub, fetchBody, arrived, nextId>>
    /\ UNCHANGED selectedIdx
    /\ UNCHANGED proxyVars

\* projectId changes: the transcript is re-initialised, the probe sent again
ProjectChange ==
    /\ ~Running
    /\ messages' = <<Hello(now)>>
    /\ probing' = TRUE
    /\ UNCHANGED <<inputValue, gemini, geminiHealth, isLoading, isProcessing, replyTo,
                   pendingFiles, supabaseRef, supabaseStatus, cPc, sub, fetchBody, arrived, nextId>>
    /\ UNCHANGED selectedIdx
    /\ UNCHANGED proxyVars

\* TickMs milliseconds pass
Tick ==
    /\ Idle
    /\ \E i \in 1..Len(messages) : messages[i].sender = "user" /\ messages[i].ts > Oldest
    /\ messages' = [i \in 1..Len(messages) |->
                      IF messages[i].sender = "user"
                      THEN [messages[i] EXCEPT !.ts = Max(@ - TickMs, Oldest)]
                      ELSE messages[i]]
    /\ UNCHANGED <<inputValue, gemini, geminiHealth, isLoading, isProcessing,
                   replyTo, pendingFiles, supabaseRef, supabaseStatus, cPc, sub, fetchBody,
                   arrived, probing, nextId>>
    /\ UNCHANGED selectedIdx
    /\ UNCHANGED proxyVars

\* useState<number | null>(null)
NoIdx == -1

\* onSelectMessage: a click on the message at `index`
SelectMessage(index) ==
    /\ index \in 0..(Len(messages) - 1)
    /\ selectedIdx # index
    /\ selectedIdx' = index
    /\ UNCHANGED <<messages, inputValue, gemini, geminiHealth, isLoading, isProcessing,
                   replyTo, pendingFiles, supabaseRef, supabaseStatus, cPc, sub, fetchBody,
                   arrived, probing, nextId>>
    /\ UNCHANGED proxyVars

\* handleKeyDown on ArrowUp
ArrowUp ==
    /\ selectedIdx' = IF selectedIdx = NoIdx THEN Len(messages) - 1
                      ELSE Max(0, selectedIdx - 1)
    /\ selectedIdx' # selectedIdx
    /\ UNCHANGED <<messages, inputValue, gemini, geminiHealth, isLoading, isProcessing,
                   replyTo, pendingFiles, supabaseRef, supabaseStatus, cPc, sub, fetchBody,
                   arrived, probing, nextId>>
    /\ UNCHANGED proxyVars

\* handleKeyDown on ArrowDown
ArrowDown ==
    /\ selectedIdx' = IF selectedIdx = NoIdx THEN 0
                      ELSE Min(Len(messages) - 1, selectedIdx + 1)
    /\ selectedIdx' # selectedIdx
    /\ UNCHANGED <<messages, inputValue, gemini, geminiHealth, isLoading, isProcessing,
                   replyTo, pendingFiles, supabaseRef, supabaseStatus, cPc, sub, fetchBody,
                   arrived, probing, nextId>>
    /\ UNCHANGED proxyVars

InitClient ==
    /\ messages = <<Hello(0)>>
    /\ inputValue = <<>>
    /\ gemini \in BOOLEAN
    /\ geminiHealth = FALSE
    /\ isLoading = FALSE
    /\ isProcessing = FALSE
    /\ replyTo = NoId
    /\ pendingFiles = 0
    /\ supabaseRef = FALSE
    /\ supabaseStatus = "disconnected"
    /\ cPc = "idle"
    /\ sub = NoSub
    /\ fetchBody = NoBody
    /\ arrived = NoArrival
    /\ probing = TRUE
    /\ nextId = 1
    /\ selectedIdx = NoIdx

Init == InitClient /\ InitProxy

\* the manager with nothing staged: lines, commands, the proxy, the store
Next ==
    \/ \E line \in Inputs : Submit(line)
    \/ \E ok \in BOOLEAN, threw \in BOOLEAN, msg \in ErrorMsgs : FetchArrives(ok, threw, msg)
    \/ FetchContinue
    \/ \E ok \in BOOLEAN, msg \in ErrorMsgs : StoreArrives(ok, msg)
    \/ StoreContinue
    \/ \E h \in BOOLEAN : ProbeSettles(h)
    \/ ProjectChange
    \/ Tick

Spec == Init /\ [][Next]_vars

\* the manager with reply targets and attachments staged
NextStaging ==
    \/ \E line \in StagingInputs : Submit(line)
    \/ \E ok \in BOOLEAN, threw \in BOOLEAN, msg \in ErrorMsgs : FetchArrives(ok, threw, msg)
    \/ FetchContinue
    \/ PickFile
    \/ Reply
    \/ CancelReply
    \/ \E h \in BOOLEAN : ProbeSettles(h)
    \/ Tick

SpecStaging == Init /\ [][NextStaging]_vars

\* the lines sent while the selection cursor is in use
CursorInputs == {Hi, CmdListar, CmdUnknown}

\* the manager with the selection cursor: clicks and arrow keys between
\* submissions and project changes
NextCursor ==
    \/ \E line \in CursorInputs : Submit(line)
    \/ \E index \in 0..MaxIds : SelectMessage(index)
    \/ ArrowUp
    \/ ArrowDown
    \/ ProjectChange

SpecCursor == Init /\ [][NextCursor]_vars

\* the connect commands sent with one key and with another
KeyInputs == {CmdConnect, CmdConnectOther}

\* the manager connecting to the store with different keys
NextKeys ==
    \/ \E line \in KeyInputs : Submit(line)
    \/ \E ok \in BOOLEAN, msg \in ErrorMsgs : StoreArrives(ok, msg)
    \/ StoreContinue
    \/ Tick

SpecKeys == Init /\ [][NextKeys]_vars

SpecProxy == Init /\ [][NextProxy]_vars

----------------------------------------------------------------------------
(* Properties of the proxy *)

\* stored turns of the conversation the request names
TurnsOfRequest == SelectSeq(store, LAMBDA r : r.chat_id = pReq.body.chatId.v)

\* a is the text of the first TextLen(a) characters of b
IsPrefixText(a, b) == TextLen(a) <= TextLen(b) /\ SliceFront(b, TextLen(a)) = a

\* C5: whatever the store holds, the contents assembled for the model have at
\* most 12 turns and at most 5000 characters of text in all.
C5_ContextBounded ==
    /\ Len(pContents) <= MAX_MESSAGES
    /\ TurnsLen(pContents) <= MAX_CONTEXT_CHARS

\* more than 12 turns are stored, 12 are loaded, and the budget (reached
\* exactly) cuts the loaded turns short
C5_Witness ==
    /\ pPc = "calling"
    /\ Len(TurnsOfRequest) > MAX_MESSAGES
    /\ Len(pLoaded) = MAX_MESSAGES
    /\ Len(pContents) < Len(pLoaded)
    /\ TurnsLen(pContents) = MAX_CONTEXT_CHARS

\* C6: with no stored turn for the conversation, the payload is one `user`
\* turn whose text is the first 1000 characters of the prompt (all of it when
\* it is shorter).
C6_EmptyStoreFallback ==
    (pPc = "calling" /\ TurnsOfRequest = <<>>) =>
        /\ Len(pContents) = 1
        /\ pContents[1].role = "user"
        /\ IsPrefixText(pContents[1].text, pReq.body.prompt.v)
        /\ TextLen(pContents[1].text) =
               Min(TextLen(pReq.body.prompt.v), FALLBACK_PROMPT_CHARS)

\* a prompt of 1200 characters is cut to 1000 over an empty store
C6_Witness ==
    /\ pPc = "calling"
    /\ store = <<>>
    /\ TextLen(pReq.body.prompt.v) > FALLBACK_PROMPT_CHARS
    /\ pContents = <<Turn("user", <<[ch |-> "p", n |-> 600], [ch |-> "q", n |-> 400]>>)>>

----------------------------------------------------------------------------
(* Properties of the chat session manager *)

\* number of user messages in a transcript
UserCount(msgs) == Cardinality({i \in 1..Len(msgs) : msgs[i].sender = "user"})

\* number of notices with this text in a transcript
NoticeCount(msgs, text) ==
    Cardinality({i \in 1..Len(msgs) : msgs[i].sender = "pilot" /\ msgs[i].content = text})

\* the transcript holds a message with this id
HasId(msgs, id) == \E i \in 1..Len(msgs) : msgs[i].id = id

\* the message with this id has this status
HasStatus(msgs, id, status) ==
    \E i \in 1..Len(msgs) : msgs[i].id = id /\ msgs[i].status = status

\* the user messages that carry the text, the reply target and the attachment
\* count now staged for `line`
SameSubmission(line) ==
    {i \in 1..Len(messages) :
        /\ messages[i].sender = "user"
        /\ messages[i].content = line
        /\ messages[i].replyToId = replyTo
        /\ messages[i].att = pendingFiles}

\* C1: whenever no call to submit is between its first await and its return,
\* the in-flight latch is false: before the first submission and after every
\* exit path of every call, the suppression of a duplicate slash-command
\* included.
C1_LatchFreeWhenSettled == Idle => ~isProcessing

\* C2: once no submission is in flight, no user message of the transcript is
\* still `sending`: each is `sent` or `error`, whether the proxy answered OK,
\* answered non-OK, or the call threw.
C2_SettledNotSending ==
    Idle => \A i \in 1..Len(messages) :
                messages[i].sender = "user" => messages[i].status \in {"sent", "error"}

\* C3: a non-blank line submitted with the assistant enabled and no submission
\* in flight appends no user message when a user message with the same text,
\* reply target and attachment count is less than 10 s old, and appends one
\* when every such message is at least 10 s old.
C3_DuplicateWindow ==
    [][\A line \in Inputs \ {<<>>} :
          (geminiAtivo /\ Idle /\ Submit(line)) =>
              /\ (\E i \in SameSubmission(line) :
                      now - messages[i].ts < DUPLICATE_WINDOW_MS)
                    => UserCount(messages') = UserCount(messages)
              /\ (/\ SameSubmission(line) # {}
                  /\ \A i \in SameSubmission(line) :
                         now - messages[i].ts >= DUPLICATE_WINDOW_MS)
                    => UserCount(messages') = UserCount(messages) + 1]_vars

\* C4: every attempt that is suppressed as a duplicate (a non-blank line sent
\* with the assistant enabled and the latch free that appends no user message)
\* adds exactly one "duplicate suppressed" notice to the transcript.
C4_OneNoticePerSuppressed ==
    [][\A line \in Inputs \ {<<>>} :
          (/\ geminiAtivo /\ ~isLoading /\ ~isProcessing
           /\ Submit(line)
           /\ UserCount(messages') = UserCount(messages)) =>
              NoticeCount(messages', DuplicateNotice) =
                  NoticeCount(messages, DuplicateNotice) + 1]_vars

\* C7: a data command with complete arguments submitted while no store
\* session is held leaves the not-connected notice in the transcript and
\* sends no call to the store.
C7_DataCommandWithoutSession ==
    [][\A line \in Inputs \ {<<>>} :
          (/\ Head(line) \in DataCmds /\ ArgsComplete(line)
           /\ ~supabaseRef
           /\ Submit(line)) =>
              /\ HasPilot(messages', NotConnectedNotice)
              /\ cPc' # "awaitStore"]_vars

\* "/listar t1" was sent with no session held: its user message is settled,
\* the not-connected notice follows it, nothing is in flight
C7_Witness ==
    /\ ~supabaseRef
    /\ Idle
    /\ \E i \in 1..Len(messages) :
          /\ messages[i].sender = "user"
          /\ messages[i].content = CmdListar
          /\ messages[i].status = "sent"
          /\ i < Len(messages)
          /\ messages[i + 1].content = NotConnectedNotice

\* C8: when the awaited call of a submission failed (the proxy answered
\* non-OK, the call threw, the store returned an error) and the user message
\* of the submission is in the transcript, the continuation leaves a trace:
\* that message becomes `error` or a message is appended.
C8_FailureLeavesTrace ==
    [][(/\ Running
        /\ ~arrived.ok
        /\ HasId(messages, sub.id)) =>
           \/ HasStatus(messages', sub.id, "error")
           \/ Len(messages') > Len(messages)]_vars

\* C9: a user message is appended only when both the capability flag and the
\* result of the health probe are true.
C9_SendNeedsFlagAndHealth ==
    [][UserCount(messages') > UserCount(messages) => (gemini /\ geminiHealth)]_vars

\* C9, as the manager gates it: a user message is appended only when the
\* capability flag is true, and a completion request is sent only when the
\* flag and the result of the health probe are both true; with the flag true
\* and the probe false a plain line is appended and answered by the canned
\* reply, with no request sent.
C9_SendGatedOnFlag ==
    [][/\ UserCount(messages') > UserCount(messages) => gemini
       /\ (fetchBody' # fetchBody /\ fetchBody' # NoBody) => (gemini /\ geminiHealth)
       /\ \A line \in {Hi} :
             (gemini /\ ~geminiHealth /\ Idle /\ ~isProcessing /\ Submit(line)
              /\ SameSubmission(line) = {}) =>
                 /\ UserCount(messages') = UserCount(messages) + 1
                 /\ HasPilot(messages', FallbackReply(pendingFiles))
                 /\ cPc' = "idle"]_vars

\* the flag is true, the probe said unhealthy, and "hi" was appended, marked
\* sent and answered by the canned reply
C9_Witness ==
    /\ gemini
    /\ ~geminiHealth
    /\ ~probing
    /\ Idle
    /\ \E i \in 1..Len(messages) :
          /\ messages[i].sender = "user"
          /\ messages[i].content = Hi
          /\ messages[i].status = "sent"
    /\ HasPilot(messages, FallbackReply(0))

\* C10: the body of every completion request the manager sends passes the
\* input validation of the context-aware proxy: it has a prompt and a
\* conversation id.
C10_RequestPassesValidation ==
    fetchBody # NoBody =>
        /\ ~PromptInvalid(fetchBody.prompt)
        /\ ~ChatIdInvalid(fetchBody.chatId)

\* C11: an accepted slash-command (not a duplicate of a user message of the
\* last 10 s) appends exactly one user message, its sanitized line, when it is
\* sent, and none when the call to the store it awaits settles: whether the
\* command succeeds, fails or is unknown.
C11_OneUserMessagePerCommand ==
    [][/\ \A line \in Inputs \ {<<>>} :
             (/\ IsCommand(line)
              /\ ~IsDuplicateUserMessage(messages, Sanitize(line), NoId, 0, now)
              /\ Submit(line)) =>
                 /\ UserCount(messages') = UserCount(messages) + 1
                 /\ \E i \in 1..Len(messages') :
                       /\ messages'[i].id = nextId
                       /\ messages'[i].sender = "user"
                       /\ messages'[i].content = Sanitize(line)
       /\ cPc = "gotStore" => UserCount(messages') = UserCount(messages)]_vars

\* a connect command the store rejected and an unknown command: one user
\* message each, every other message a notice
C11_Witness ==
    /\ Idle
    /\ UserCount(messages) = 2
    /\ \E i, j \in 1..Len(messages) :
          /\ messages[i].sender = "user" /\ messages[i].content = Sanitize(CmdConnect)
          /\ messages[j].sender = "user" /\ messages[j].content = CmdUnknown
    /\ HasPilot(messages, ConnectFailed("boom"))
    /\ HasPilot(messages, UnknownNotice)

\* C12: when the store call of a command settles and the command's user
\* message is in the transcript, the message ends `sent` if the call succeeded
\* and `error` if it failed (credentials rejected, query or insert error).
C12_StatusReflectsOutcome ==
    [][(cPc = "gotStore" /\ HasId(messages, sub.id)) =>
          HasStatus(messages', sub.id, IF arrived.ok THEN "sent" ELSE "error")]_vars

\* number of messages the assistant authored (replies and notices)
PilotCount(msgs) == Cardinality({i \in 1..Len(msgs) : msgs[i].sender = "pilot"})

\* C13 as stated: a plain message that is accepted and succeeds gets exactly one
\* assistant message: appended in the same step when the local fallback
\* answers (flag on, proxy not usable), appended by the continuation when the
\* proxy answered OK.
C13_OneAssistantPerSuccess ==
    [][/\ \A line \in Inputs \ {<<>>} :
             (/\ ~IsCommand(line)
              /\ ~geminiEnabled
              /\ Submit(line)
              /\ UserCount(messages') = UserCount(messages) + 1) =>
                 PilotCount(messages') = PilotCount(messages) + 1
       /\ (cPc = "gotFetch" /\ arrived.ok /\ HasId(messages, sub.id)) =>
             PilotCount(messages') = PilotCount(messages) + 1]_vars

\* C14: a call to submit with the capability flag off appends no user
\* message, leaves the latch as it was, starts no call to the proxy or the
\* store, and appends the notice that the assistant is disabled.
C14_FlagOffRejected ==
    [][\A line \in Inputs :
          (~geminiAtivo /\ Submit(line)) =>
              /\ UserCount(messages') = UserCount(messages)
              /\ isProcessing' = isProcessing
              /\ isLoading' = isLoading
              /\ cPc' = cPc
              /\ fetchBody' = fetchBody
              /\ Len(messages') = Len(messages) + 1
              /\ messages'[Len(messages')].sender = "pilot"
              /\ messages'[Len(messages')].content = DisabledNotice]_vars

\* C15: a submission aborted as a duplicate (a non-blank line sent with the
\* assistant enabled and the latch free that appends no user message) leaves
\* the input state as it was: the text entered, the pending reply target and
\* the pending attachments.
C15_DuplicateKeepsInput ==
    [][\A line \in Inputs \ {<<>>} :
          (/\ geminiAtivo /\ ~isLoading /\ ~isProcessing
           /\ Submit(line)
           /\ UserCount(messages') = UserCount(messages)) =>
              /\ inputValue' = line
              /\ replyTo' = replyTo
              /\ pendingFiles' = pendingFiles]_vars

\* a request enters the handler in this step
Received == pPc = "idle" /\ pPc' # "idle"

\* the request that entered is a generation POST whose parsed body has a
\* prompt or a conversation id that is missing, empty or not a string
InvalidFields(req) ==
    /\ req.method = "POST"
    /\ req.body.parse
    /\ PromptInvalid(req.body.prompt) \/ ChatIdInvalid(req.body.chatId)

\* the handler has answered without reading the store, calling the model or
\* writing to the store
AnsweredAtOnce ==
    /\ pPc' = "done"
    /\ pLoaded' = <<>>
    /\ pContents' = <<>>
    /\ pText' = JNull
    /\ store' = store

HandlerStep == pPc # "idle" \/ pPc' # "idle"

\* C17: in one request the store gains exactly one row, holding the
\* conversation id, the generated text and sender `assistant`, when the model
\* answered OK with a text; it gains none when no text was extracted, the
\* answer being 200 with text null; no step of the handler adds any other row.
C17_OneAssistantRowPerReply ==
    [][/\ (pPc = "inserting" /\ pPc' = "done") =>
             store' = Append(store, AssistantRow(pReq.body.chatId.v, pText.v))
       /\ (pPc = "calling" /\ pResp'.kind = "result") =>
             /\ store' = store
             /\ pResp'.status = 200
             /\ pResp'.text = JNull
       /\ (HandlerStep /\ store' # store) =>
             /\ pPc = "inserting"
             /\ Len(store') = Len(store) + 1
             /\ store'[Len(store')].sender = "assistant"]_vars

\* C18: when the model answers with a non-OK status the handler answers with
\* that status and an error body, and the request writes nothing to the store:
\* the store is left as it was and the request is over.
C18_NonOkPassedThrough ==
    [][\A st \in {429, 503}, sh \in Shapes :
          ModelRespond("nonok", st, sh) =>
              /\ pResp'.status = st
              /\ pResp'.kind = "error"
              /\ store' = store
              /\ pPc' = "done"]_vars

\* C19: every request ends with exactly one response: none is set before the
\* handler returns one, the one returned is not replaced, and the request is
\* over only with a response in hand. An exception at any step (the body
\* cannot be parsed, the store read throws, the call of the model throws or
\* its body cannot be parsed, the insert throws) ends the request with a 500
\* JSON error. Every response, errors included, carries the cross-origin
\* headers.
C19_OneResponsePerRequest ==
    /\ [](pPc \in {"calling", "inserting"} => pResp = NoResp)
    /\ [](pPc = "done" => pResp # NoResp /\ pResp.cors)
    /\ [][pPc = "done" => pPc' = "idle"]_vars
    /\ [][/\ \A req \in Requests :
                (/\ req.method = "POST" /\ req.key
                 /\ \/ ~req.body.parse
                    \/ Passes(req.method, req.key, req.body)
                 /\ ProxyReceive(req.method, req.key, req.body, "throw")) =>
                    pPc' = "done" /\ pResp'.status = 500 /\ pResp'.kind = "error"
          /\ \A o \in {"throw", "nonok", "ok"}, st \in {429, 503} :
                (ModelRespond("throw", st, "neither") \/ ModelRespond(o, st, "notjson")) =>
                    pPc' = "done" /\ pResp'.status = 500 /\ pResp'.kind = "error"
          /\ InsertSettles("throw") =>
                pPc' = "done" /\ pResp'.status = 500 /\ pResp'.kind = "error"]_vars

\* the insert of the reply threw after the store had been read and the model
\* had answered: the request ended with the 500 error and its headers
C19_Witness ==
    /\ pPc = "done"
    /\ pText # JNull
    /\ pLoaded # <<>>
    /\ pResp.status = 500
    /\ pResp.kind = "error"
    /\ pResp.cors

\* the loaded turns, oldest first
Chronological == Reverse(pLoaded)

\* the first k loaded turns, oldest first, as turns of the payload
PrefixTurns(k) ==
    [i \in 1..k |-> Turn(RoleOf(Chronological[i].sender), Chronological[i].content)]

\* C20: when turns were loaded, the turns sent to the model are the first k of
\* them in chronological order, for the k at which the budget stops the
\* assembly: the first k total at most 5000 characters and, if a turn is left
\* out, the oldest turn left out would take the total above 5000. No turn
\* after it is included, whatever its length. (With k = 0 no loaded turn is
\* sent: the payload is the prompt alone.)
C20_IncludedIsPrefix ==
    (pPc = "calling" /\ pLoaded # <<>>) =>
        \E k \in 0..Len(pLoaded) :
           /\ Len(pLoaded) <= MAX_MESSAGES
           /\ TurnsLen(PrefixTurns(k)) <= MAX_CONTEXT_CHARS
           /\ k < Len(pLoaded) =>
                 TurnsLen(PrefixTurns(k)) + TextLen(Chronological[k + 1].content)
                     > MAX_CONTEXT_CHARS
           /\ IF k > 0 THEN pContents = PrefixTurns(k)
              ELSE pContents = <<Turn("user", TruncatedPrompt(pReq.body.prompt.v))>>

\* a turn of 5001 characters stops the assembly after one turn although the
\* turn after it, of 250 characters, would fit in the budget that is left
C20_Witness ==
    /\ pPc = "calling"
    /\ Len(pLoaded) >= 3
    /\ Len(pContents) = 1
    /\ pContents = PrefixTurns(1)
    /\ TextLen(Chronological[2].content) > MAX_CONTEXT_CHARS
    /\ TurnsLen(pContents) + TextLen(Chronological[3].content) <= MAX_CONTEXT_CHARS

\* C21: when the read of the conversation's turns returns an error, the
\* request is not answered at that point: the handler goes on to call the
\* model with the prompt-only turn as its payload, whatever the store holds,
\* and the request then ends with the answer built from the model's response.
C21_ReadErrorDegrades ==
    [][/\ \A req \in Requests :
             (/\ Passes(req.method, req.key, req.body)
              /\ ProxyReceive(req.method, req.key, req.body, "error")) =>
                 /\ pPc' = "calling"
                 /\ pResp' = NoResp
                 /\ pLoaded' = <<>>
                 /\ pContents' = <<Turn("user", TruncatedPrompt(req.body.prompt.v))>>
       /\ pPc = "calling" =>
             /\ pPc' \in {"inserting", "done"}
             /\ pPc' = "done" => pResp'.kind \in {"result", "error"}]_vars

\* the read failed although the conversation had a stored turn; the model was
\* called with the prompt alone, answered with a text, and the request ended
\* with that text
C21_Witness ==
    /\ pPc = "done"
    /\ pLoaded = <<>>
    /\ Len(pContents) = 1
    /\ pContents[1].text = TruncatedPrompt(pReq.body.prompt.v)
    /\ Len(TurnsOfRequest) >= 2
    /\ pResp.kind = "result"
    /\ pResp.text = pText
    /\ pText # JNull

\* C22: staged attachments leave staging only in the step of an accepted
\* submission, plain or command, and are then carried by the one user message
\* that step appends, staging being left empty.
C22_StagedAttachmentsAttached ==
    [][pendingFiles' < pendingFiles =>
          /\ UserCount(messages') = UserCount(messages) + 1
          /\ pendingFiles' = 0
          /\ \E i \in 1..Len(messages') :
                /\ messages'[i].id = nextId
                /\ messages'[i].sender = "user"
                /\ messages'[i].att = pendingFiles]_vars

\* a token of 16 or more characters of [A-Za-z0-9-_]
LongToken(tok) == tok \in PlainToks /\ Len(tok) >= REDACT_MIN_CHARS

\* the token occurs in the content
Contains(content, tok) == \E i \in 1..Len(content) : content[i] = tok

\* C23: an accepted command whose last token is a long token is recorded with
\* that token replaced by the redaction marker, the recorded message does not
\* contain the token, and the dispatcher works on the line as typed (a
\* connect command is awaited with the original line in hand). No command
\* recorded in the transcript ends with a long token.
C23_TrailingSecretRedacted ==
    /\ [][\A line \in Inputs \ {<<>>} :
             (/\ IsCommand(line) /\ Len(line) >= 2 /\ LongToken(line[Len(line)])
              /\ Submit(line)
              /\ UserCount(messages') = UserCount(messages) + 1) =>
                 /\ \E i \in 1..Len(messages') :
                       /\ messages'[i].id = nextId
                       /\ messages'[i].sender = "user"
                       /\ messages'[i].content =
                              SubSeq(line, 1, Len(line) - 1) \o <<Redacted>>
                       /\ ~Contains(messages'[i].content, line[Len(line)])
                 /\ cPc' = "awaitStore" => sub'.raw = line]_vars
    /\ [](\A i \in 1..Len(messages) :
             (messages[i].sender = "user" /\ IsCommand(messages[i].content)) =>
                 ~LongToken(messages[i].content[Len(messages[i].content)]))

\* a connect command with its key is awaited: the transcript holds the
\* redacted line, the dispatcher holds the key
C23_Witness ==
    /\ cPc = "awaitStore"
    /\ sub.raw = CmdConnect
    /\ LongToken(sub.raw[Len(sub.raw)])
    /\ \E i \in 1..Len(messages) :
          /\ messages[i].id = sub.id
          /\ messages[i].content = <<"/supabase", "connect", "url", Redacted>>

\* C24: the selection cursor is unset or an index of the current transcript.
C24_CursorInRange ==
    selectedIdx = NoIdx \/ selectedIdx \in 0..(Len(messages) - 1)

\* user messages still `sending`
Sending(msgs) ==
    {i \in 1..Len(msgs) : msgs[i].sender = "user" /\ msgs[i].status = "sending"}

\* C25: with the latch free and the loading flag false no user message is
\* `sending`, and at no time is more than one user message `sending`.
C25_NoSendingWhenFree ==
    /\ (~isProcessing /\ ~isLoading) => Sending(messages) = {}
    /\ Cardinality(Sending(messages)) <= 1

\* the line would be held a duplicate of a user message of the last 10 s
IsDuplicateLine(line) ==
    IF IsCommand(line)
    THEN IsDuplicateUserMessage(messages, Sanitize(line), NoId, 0, now)
    ELSE IsDuplicateUserMessage(messages, line, replyTo, pendingFiles, now)

\* C26: with the assistant enabled and no call of a submission outstanding,
\* every non-blank line that is not a duplicate is accepted when it is sent:
\* the step appends its user message. No settled state ignores submissions.
C26_SettledAcceptsSubmission ==
    [][\A line \in Inputs \ {<<>>} :
          (/\ geminiAtivo
           /\ Idle
           /\ ~IsDuplicateLine(line)
           /\ Submit(line)) =>
              /\ UserCount(messages') = UserCount(messages) + 1
              /\ messages'[Len(messages)  + 1].content = Sanitize(line)]_vars

\* C27: a command is suppressed as a duplicate (the step appends no user
\* message although the assistant is enabled and the latch free) only when the
\* transcript records a user message less than 10 s old that was typed as the
\* line now sent: a command that differs from every recent one, be it only in
\* its key, is accepted.
C27_DuplicateNeedsSameRaw ==
    [][\A line \in KeyInputs :
          (/\ geminiAtivo /\ ~isLoading /\ ~isProcessing
           /\ Submit(line)
           /\ UserCount(messages') = UserCount(messages)) =>
              \E i \in 1..Len(messages) :
                 /\ messages[i].sender = "user"
                 /\ now - messages[i].ts < DUPLICATE_WINDOW_MS
                 /\ messages[i].typed = line]_vars

\* C28: with no command in flight a store session is held exactly when the
\* connection status is `connected`; a data command sent while the status is
\* `error` leaves the not-connected notice and starts no call to a store.
C28_SessionIffConnected ==
    /\ [](Idle => (supabaseRef <=> supabaseStatus = "connected"))
    /\ [][\A line \in Inputs \ {<<>>} :
             (/\ Head(line) \in DataCmds /\ ArgsComplete(line)
              /\ supabaseStatus = "error"
              /\ Submit(line)) =>
                 /\ HasPilot(messages', NotConnectedNotice)
                 /\ cPc' # "awaitStore"]_vars

\* C29: when the awaited call of a submission settles after the transcript
\* was re-initialised (the user message of the submission is no longer in the
\* transcript), the continuation adds no message to the new transcript.
C29_OldCompletionAddsNothing ==
    [][(Running /\ ~HasId(messages, sub.id)) => messages' = messages]_vars

\* the payload is the prompt-only turn
IsFallback ==
    pContents = <<Turn("user", TruncatedPrompt(pReq.body.prompt.v))>>

\* every turn of the payload is a loaded turn
MadeOfStoredTurns ==
    \A i \in 1..Len(pContents) :
       \E j \in 1..Len(pLoaded) :
          pContents[i] = Turn(RoleOf(pLoaded[j].sender), pLoaded[j].content)

\* C30 as stated: whenever at least one turn was loaded, the payload is made
\* of stored turns and is not the prompt-only turn.
C30_FallbackOnlyWhenNoneLoaded ==
    (pPc = "calling" /\ pLoaded # <<>>) => (MadeOfStoredTurns /\ ~IsFallback)

\* C30: the payload is the prompt-only turn exactly when no loaded turn is
\* included: nothing was loaded, or the oldest loaded turn alone is longer
\* than 5000 characters. In every other case the payload is made of stored
\* turns, the oldest loaded turn first.
C30_FallbackWhenNoneIncluded ==
    pPc = "calling" =>
        IF pLoaded = <<>> \/ TextLen(pLoaded[Len(pLoaded)].content) > MAX_CONTEXT_CHARS
        THEN IsFallback
        ELSE /\ ~IsFallback
             /\ MadeOfStoredTurns
             /\ pContents[1] = Turn(RoleOf(pLoaded[Len(pLoaded)].sender),
                                    pLoaded[Len(pLoaded)].content)

\* turns were loaded, the oldest of them has 5001 characters, and the model
\* is called with the prompt alone
C30_Witness ==
    /\ pPc = "calling"
    /\ Len(pLoaded) >= 2
    /\ TextLen(pLoaded[Len(pLoaded)].content) > MAX_CONTEXT_CHARS
    /\ IsFallback

\* C13: a plain message that is accepted and answered OK by the proxy gets
\* exactly one assistant message, appended by the continuation. One answered
\* by the local fallback gets exactly one, appended in the same step, unless
\* the transcript already holds an assistant message with the text of the
\* canned reply: then none is appended, and the user message is `sent` all
\* the same.
C13_OneAssistantUnlessRepeated ==
    [][/\ \A line \in Inputs \ {<<>>} :
             (/\ ~IsCommand(line)
              /\ ~geminiEnabled
              /\ Submit(line)
              /\ UserCount(messages') = UserCount(messages) + 1) =>
                 /\ PilotCount(messages') = PilotCount(messages) +
                       (IF HasPilot(messages, FallbackReply(pendingFiles)) THEN 0 ELSE 1)
                 /\ NoticeCount(messages', FallbackReply(pendingFiles)) = 1
                 /\ HasStatus(messages', nextId, "sent")
       /\ (cPc = "gotFetch" /\ arrived.ok /\ HasId(messages, sub.id)) =>
             /\ PilotCount(messages') = PilotCount(messages) + 1
             /\ messages'[Len(messages')].content = GeminiReply]_vars

\* two plain messages were answered by the fallback and are `sent`; the
\* transcript holds the canned reply once
C13_Witness ==
    /\ Idle
    /\ ~geminiEnabled
    /\ Cardinality({i \in 1..Len(messages) :
                       /\ messages[i].sender = "user"
                       /\ messages[i].content = Hi
                       /\ messages[i].status = "sent"}) = 2
    /\ NoticeCount(messages, FallbackReply(0)) = 1
    /\ PilotCount(messages) = 2

====
